---------------------------- MODULE Spec2Model ----------------------------
(***************************************************************************)
(* Model of the shared Input helper (util/src/lib.rs) and of the day 3     *)
(* schematic scanner (day03/src/main.rs).                                  *)
(*                                                                         *)
(* A text (Rust String / &str) is a sequence of characters; a character is *)
(* a one-character string.  Columns and rows are 0-based as in the code;   *)
(* TLA+ sequences are 1-based, so the character at column c of a line is   *)
(* line[c + 1].                                                            *)
(***************************************************************************)
EXTENDS Integers, Sequences, FiniteSets, TLC

VARIABLES
    pc,      \* how far the run got: "new" (no Input built yet), "input", "call";
             \* in part2 of day 4 "cards", "for", "add", "sum", "done", "panicked"
    src,     \* what the run was given: the constructor argument of an Input
             \* [kind, val], a row and a line [kind, row, line], a Number
             \* and a Symbol [kind, number, symbol], or the cards [kind, val]
    hist,    \* the texts of the Inputs produced so far, oldest first
    ret,     \* the last operation called and the value it returned [op, val]
    card_counts,  \* day04 part2: the instances of each card, card 0 first
    index,        \* day04 part2: the card the outer loop is at, from 0
    add_index     \* day04 part2: the card the inner loop is at, from 0

vars == <<pc, src, hist, ret, card_counts, index, add_index>>

None == [op |-> "none"]

(***************************************************************************)
(* Bounds of the model                                                     *)
(***************************************************************************)
MaxText == 5        \* longest text handed to Input::from_str
MaxLines == 2       \* longest list handed to Input::from_lines
MaxLineLen == 2     \* longest string in such a list
MaxTrims == 2       \* how many times trim_trailing_newlines is chained
MaxGrid == 4        \* longest grid text, apart from the fixtures
MaxLine == 5        \* longest line handed to parse_row, apart from the fixtures
MaxRow == 1         \* largest row index handed to parse_row
MaxCoord == 2       \* rows and columns of is_adjacent: 0..MaxCoord and the top of usize

NL == "\n"

\* All sequences over S of length at most n
SeqUpTo(S, n) == UNION {[1..k -> S] : k \in 0..n}

(***************************************************************************)
(* util/src/lib.rs : Input                                                 *)
(***************************************************************************)

\* char::is_whitespace restricted to the characters the model uses:
\* the Unicode White_Space property holds of ' ', '\t', '\n', '\r'.
is_whitespace(c) == c \in {" ", "\t", NL, "\r"}

Front(t) == SubSeq(t, 1, Len(t) - 1)

\* str::trim_end : drop trailing characters while they are whitespace
RECURSIVE trim_end(_)
trim_end(t) ==
    IF t # <<>> /\ is_whitespace(t[Len(t)]) THEN trim_end(Front(t)) ELSE t

\* str::trim_end_matches(c) : drop trailing characters while they equal c
RECURSIVE trim_end_matches(_, _)
trim_end_matches(t, c) ==
    IF t # <<>> /\ t[Len(t)] = c THEN trim_end_matches(Front(t), c) ELSE t

\* the fold of from_lines: complete + line + "\n", left to right
RECURSIVE fold_lines(_)
fold_lines(lines) ==
    IF lines = <<>> THEN <<>>
    ELSE fold_lines(Front(lines)) \o lines[Len(lines)] \o <<NL>>

\* Input::from_lines
from_lines(lines) == trim_end(fold_lines(lines))

\* Input::from_str
from_str(t) == t

\* a slip of trim_trailing_newlines: one trailing newline is removed (strip_suffix)
trim_one_newline(self) ==
    IF self # <<>> /\ self[Len(self)] = NL THEN Front(self) ELSE self

\* a slip of trim_trailing_newlines: all trailing whitespace is removed (trim_end)
trim_all_whitespace(self) == trim_end(self)

\* Input::trim_trailing_newlines
trim_trailing_newlines(self) == trim_end_matches(self, NL)

\* Input::as_str
as_str(self) == self

\* str::split(c) : the pieces between the separators, empty pieces kept
first_match(t, c) == CHOOSE i \in 1..Len(t) : t[i] = c /\ \A j \in 1..(i - 1) : t[j] # c

RECURSIVE split(_, _)
split(t, c) ==
    IF \E i \in 1..Len(t) : t[i] = c
    THEN <<SubSeq(t, 1, first_match(t, c) - 1)>>
            \o split(SubSeq(t, first_match(t, c) + 1, Len(t)), c)
    ELSE <<t>>

NonEmptyPiece(piece) == piece # <<>>

\* a slip of as_lines: the empty pieces are dropped
as_lines_without_empty(self) == SelectSeq(split(self, NL), NonEmptyPiece)

\* Input::as_lines
as_lines(self) == split(self, NL)

(***************************************************************************)
(* Natural numbers of any size, as little-endian sequences of bytes with   *)
(* no high zero byte (zero is the empty sequence).  They give the          *)
(* mathematical value of sums and products, and the u32 operations of the  *)
(* code are defined from them: a u32 is a natural that fits U32Bits bits.  *)
(***************************************************************************)
U32Bits == 32

U32Bytes == U32Bits \div 8

RECURSIVE BigNorm(_)
BigNorm(x) == IF x # <<>> /\ x[Len(x)] = 0 THEN BigNorm(Front(x)) ELSE x

\* x * m + carry, for small m and carry
RECURSIVE BigMulAdd(_, _, _)
BigMulAdd(x, m, carry) ==
    IF x = <<>>
    THEN IF carry = 0 THEN <<>> ELSE <<carry % 256>> \o BigMulAdd(<<>>, m, carry \div 256)
    ELSE <<(x[1] * m + carry) % 256>> \o BigMulAdd(Tail(x), m, (x[1] * m + carry) \div 256)

BigHead(x) == IF x = <<>> THEN 0 ELSE x[1]

BigTail(x) == IF x = <<>> THEN x ELSE Tail(x)

RECURSIVE BigAddC(_, _, _)
BigAddC(x, y, carry) ==
    IF x = <<>> /\ y = <<>>
    THEN IF carry = 0 THEN <<>> ELSE <<carry>>
    ELSE <<(BigHead(x) + BigHead(y) + carry) % 256>>
            \o BigAddC(BigTail(x), BigTail(y), (BigHead(x) + BigHead(y) + carry) \div 256)

BigAdd(x, y) == BigNorm(BigAddC(x, y, 0))

\* x * 256
BigShift(x) == IF x = <<>> THEN x ELSE <<0>> \o x

RECURSIVE BigMul(_, _)
BigMul(x, y) ==
    IF y = <<>> \/ x = <<>> THEN <<>>
    ELSE BigAdd(BigNorm(BigMulAdd(x, y[1], 0)), BigShift(BigMul(x, Tail(y))))

Big(n) == BigNorm(BigMulAdd(<<>>, 0, n))

RECURSIVE BigSum(_)
BigSum(xs) == IF xs = <<>> THEN <<>> ELSE BigAdd(BigSum(Front(xs)), xs[Len(xs)])

\* u32 arithmetic: the exact result when it fits, else the overflow
FitsU32(x) == Len(x) <= U32Bytes

WrapU32(x) == BigNorm(SubSeq(x, 1, IF Len(x) < U32Bytes THEN Len(x) ELSE U32Bytes))

\* a call returns a value, or it panics (for a Result: it is Ok or Err)
Ok(v) == [ok |-> TRUE, val |-> v]

Panic == [ok |-> FALSE, val |-> <<>>]

\* the exact result p of a checked operation: Some(p) when it fits a u32
checked(p) == IF FitsU32(p) THEN Ok(p) ELSE Panic

\* u32::checked_mul / u32::checked_add
checked_mul(a, b) == checked(BigMul(a, b))

checked_add(a, b) == checked(BigAdd(a, b))

\* the exact result p of a * b or a + b on u32: with overflow checks on (debug
\* profile) an overflow panics, with them off (release profile) the result
\* wraps modulo 2^32
overflowing(p, overflow_checks) ==
    IF FitsU32(p) THEN Ok(p) ELSE IF overflow_checks THEN Panic ELSE Ok(WrapU32(p))

u32_mul(a, b, overflow_checks) == overflowing(BigMul(a, b), overflow_checks)

u32_add(a, b, overflow_checks) == overflowing(BigAdd(a, b), overflow_checks)

\* one step of the fold of Iterator::sum
sum_step(acc, x, overflow_checks) ==
    IF acc.ok THEN u32_add(acc.val, x, overflow_checks) ELSE Panic

\* Iterator::sum over u32: a left fold of + from 0
RECURSIVE u32_sum(_, _)
u32_sum(xs, overflow_checks) ==
    IF xs = <<>> THEN Ok(<<>>)
    ELSE sum_step(u32_sum(Front(xs), overflow_checks), xs[Len(xs)], overflow_checks)

(***************************************************************************)
(* day03/src/main.rs : the schematic scanner                               *)
(***************************************************************************)
DigitChars == <<"0", "1", "2", "3", "4", "5", "6", "7", "8", "9">>

\* char::is_ascii_digit
is_ascii_digit(c) == \E d \in 1..10 : DigitChars[d] = c

to_digit(c) == (CHOOSE d \in 1..10 : DigitChars[d] = c) - 1

\* line.chars().enumerate() : the pairs (column, character), columns from 0
indexed_chars(line) == [i \in 1..Len(line) |-> <<i - 1, line[i]>>]

\* <u32 as FromStr>::from_str on a string of digits: for each digit,
\* result = result.checked_mul(10)?.checked_add(digit)?  The result is
\* Ok(value) or the Err (not ok) that the caller's expect turns into a panic.
parse_add(mul, d) == IF mul.ok THEN checked_add(mul.val, Big(d)) ELSE Panic

parse_step(acc, d) == IF acc.ok THEN parse_add(checked_mul(acc.val, Big(10)), d) ELSE Panic

RECURSIVE parse_digits(_)
parse_digits(digits) ==
    IF digits = <<>> THEN Ok(<<>>)
    ELSE parse_step(parse_digits(Front(digits)), to_digit(digits[Len(digits)]))

\* an empty string is an error (IntErrorKind::Empty), an overflow is one too
parse_u32(digits) == IF digits = <<>> THEN Panic ELSE parse_digits(digits)

\* the column of the first element of ic that is not a digit, as an index of ic
first_non_digit(ic) ==
    CHOOSE i \in 1..Len(ic) :
        /\ ~is_ascii_digit(ic[i][2])
        /\ \A j \in 1..(i - 1) : is_ascii_digit(ic[j][2])

\* slice::split(|(_col, c)| !c.is_ascii_digit()) : the runs between the
\* non-digit elements, empty runs kept
RECURSIVE split_non_digit(_)
split_non_digit(ic) ==
    IF \E i \in 1..Len(ic) : ~is_ascii_digit(ic[i][2])
    THEN <<SubSeq(ic, 1, first_non_digit(ic) - 1)>>
            \o split_non_digit(SubSeq(ic, first_non_digit(ic) + 1, Len(ic)))
    ELSE <<ic>>

\* the Number built from a run and its parsed value
number_of_run(parsed, row, run) ==
    IF parsed.ok
    THEN Ok([number |-> parsed.val, row |-> row,
             start |-> run[1][1], end |-> run[Len(run)][1]])
    ELSE Panic   \* expect("Only ascii digits from split")

\* the closure of Number::parse_row applied to one non-empty run
parse_run(row, run) ==
    number_of_run(parse_u32([i \in 1..Len(run) |-> run[i][2]]), row, run)

\* collect_vec over results: the values, or the panic of the first that panicked
collect_ok(results) ==
    IF \A i \in 1..Len(results) : results[i].ok
    THEN Ok([i \in 1..Len(results) |-> results[i].val])
    ELSE Panic

parse_runs(row, runs) == collect_ok([i \in 1..Len(runs) |-> parse_run(row, runs[i])])

NonEmptyRun(run) == run # <<>>

\* Number::parse_row : Ok(the Numbers of the line) or the panic of the expect
Number_parse_row(row, line) ==
    parse_runs(row, SelectSeq(split_non_digit(indexed_chars(line)), NonEmptyRun))

symbols_of(kept, row) ==
    [i \in 1..Len(kept) |-> [symbol |-> kept[i][2], row |-> row, col |-> kept[i][1]]]

KeepAllButDigits(p) == ~is_ascii_digit(p[2])

\* a slip of Symbol::parse_row: the filter forgets the '.'
Symbol_parse_row_with_dots(row, line) ==
    symbols_of(SelectSeq(indexed_chars(line), KeepAllButDigits), row)

KeepSymbol(p) == ~is_ascii_digit(p[2]) /\ p[2] # "."

\* Symbol::parse_row
Symbol_parse_row(row, line) ==
    symbols_of(SelectSeq(indexed_chars(line), KeepSymbol), row)

\* usize, scaled to UsizeBits bits (a bound of the model)
UsizeBits == 8

UsizeMax == 2 ^ UsizeBits - 1

\* a slip of saturating_sub: the subtraction wraps below zero
wrapping_sub(a, b) == IF a < b THEN UsizeMax + 1 - (b - a) ELSE a - b

saturating_sub(a, b) == IF a < b THEN 0 ELSE a - b

saturating_add(a, b) == IF a > UsizeMax - b THEN UsizeMax ELSE a + b

abs_diff(a, b) == IF a < b THEN b - a ELSE a - b

\* Number::is_adjacent
is_adjacent(self, symbol) ==
    /\ abs_diff(self.row, symbol.row) <= 1
    /\ saturating_sub(self.start, 1) <= symbol.col
    /\ symbol.col <= saturating_add(self.end, 1)

\* flat_map: the Numbers so far followed by those of one more row
chain_ok(before, here) ==
    IF before.ok /\ here.ok THEN Ok(before.val \o here.val) ELSE Panic

\* flat_map over the enumerated lines, rows from 0
RECURSIVE flat_numbers(_, _)
flat_numbers(lines, k) ==
    IF k = 0 THEN Ok(<<>>)
    ELSE chain_ok(flat_numbers(lines, k - 1), Number_parse_row(k - 1, lines[k]))

RECURSIVE flat_symbols(_, _)
flat_symbols(lines, k) ==
    IF k = 0 THEN <<>>
    ELSE flat_symbols(lines, k - 1) \o Symbol_parse_row(k - 1, lines[k])

numbers_of_lines(lines) == flat_numbers(lines, Len(lines))

symbols_of_lines(lines) == flat_symbols(lines, Len(lines))

\* get_numbers_from_input : Ok(all Numbers, rows top to bottom) or the panic
get_numbers_from_input(input) == numbers_of_lines(as_lines(input))

\* get_symbols_from_input
get_symbols_from_input(input) == symbols_of_lines(as_lines(input))

\* .map(|number| number.number)
values_of(numbers) == [i \in 1..Len(numbers) |-> numbers[i].number]

\* a filter that keeps the Numbers adjacent to every symbol
numbers_adjacent_to_all(symbols, numbers) ==
    LET Keep(number) == \A i \in 1..Len(symbols) : is_adjacent(number, symbols[i])
    IN  SelectSeq(numbers, Keep)

\* .filter(|number| symbols.iter().any(|symbol| number.is_adjacent(symbol)))
adjacent_numbers(symbols, numbers) ==
    LET Keep(number) == \E i \in 1..Len(symbols) : is_adjacent(number, symbols[i])
    IN  SelectSeq(numbers, Keep)

\* the filter and map of get_part_numbers
part_numbers(symbols, numbers) ==
    IF numbers.ok THEN Ok(values_of(adjacent_numbers(symbols, numbers.val))) ELSE Panic

scan_part_numbers(input) ==
    part_numbers(get_symbols_from_input(input), get_numbers_from_input(input))

\* get_part_numbers
get_part_numbers(input) == scan_part_numbers(trim_trailing_newlines(input))

\* collect_tuple into a pair: Some when there are exactly two elements
collect_tuple(found) == IF Len(found) = 2 THEN <<found>> ELSE <<>>

\* the closure of filter_map in get_gear_ratios: the Numbers adjacent to the
\* symbol, collected into a pair when there are exactly two
adjacent_pair(numbers, symbol) ==
    LET Adj(number) == is_adjacent(number, symbol)
    IN  collect_tuple(SelectSeq(numbers, Adj))

RECURSIVE gear_pairs(_, _, _)
gear_pairs(numbers, stars, k) ==
    IF k = 0 THEN <<>>
    ELSE gear_pairs(numbers, stars, k - 1) \o adjacent_pair(numbers, stars[k])

\* .map(|gears| gears.0.number * gears.1.number).collect_vec()
ratios_of(pairs, overflow_checks) ==
    collect_ok([i \in 1..Len(pairs) |->
                   u32_mul(pairs[i][1].number, pairs[i][2].number, overflow_checks)])

IsStar(symbol) == symbol.symbol = "*"

gear_ratios(numbers, stars, overflow_checks) ==
    IF numbers.ok
    THEN ratios_of(gear_pairs(numbers.val, stars, Len(stars)), overflow_checks)
    ELSE Panic

scan_gear_ratios(input, overflow_checks) ==
    gear_ratios(get_numbers_from_input(input),
                SelectSeq(get_symbols_from_input(input), IsStar), overflow_checks)

\* get_gear_ratios
get_gear_ratios(input, overflow_checks) ==
    scan_gear_ratios(trim_trailing_newlines(input), overflow_checks)

\* .into_iter().sum() of a call that returned
sum_ok(values, overflow_checks) ==
    IF values.ok THEN u32_sum(values.val, overflow_checks) ELSE Panic

\* part1
part1(input, overflow_checks) == sum_ok(get_part_numbers(input), overflow_checks)

\* part2
part2(input, overflow_checks) ==
    sum_ok(get_gear_ratios(input, overflow_checks), overflow_checks)

(***************************************************************************)
(* Harness of Input: build one Input, then trim and query it.              *)
(***************************************************************************)
TextChars == {"a", " ", NL}
LineChars == {"a", " ", "\t"}

Texts == SeqUpTo(TextChars, MaxText)
LineLists == SeqUpTo(SeqUpTo(LineChars, MaxLineLen), MaxLines)

Self == hist[Len(hist)]

InitInput ==
    /\ pc = "new"
    /\ src \in [kind : {"lines"}, val : LineLists] \cup [kind : {"str"}, val : Texts]
    /\ hist = <<>>
    /\ ret = None
    /\ card_counts = <<>>
    /\ index = 0
    /\ add_index = 0

FromLines ==
    /\ pc = "new" /\ src.kind = "lines"
    /\ hist' = <<from_lines(src.val)>>
    /\ pc' = "input"
    /\ UNCHANGED <<src, ret, card_counts, index, add_index>>

FromStr ==
    /\ pc = "new" /\ src.kind = "str"
    /\ hist' = <<from_str(src.val)>>
    /\ pc' = "input"
    /\ UNCHANGED <<src, ret, card_counts, index, add_index>>

TrimTrailingNewlines ==
    /\ pc = "input" /\ Len(hist) <= MaxTrims
    /\ hist' = Append(hist, trim_trailing_newlines(Self))
    /\ ret' = None
    /\ UNCHANGED <<pc, src, card_counts, index, add_index>>

AsLines ==
    /\ pc = "input"
    /\ ret' = [op |-> "as_lines", val |-> as_lines(Self)]
    /\ UNCHANGED <<pc, src, hist, card_counts, index, add_index>>

AsStr ==
    /\ pc = "input"
    /\ ret' = [op |-> "as_str", val |-> as_str(Self)]
    /\ UNCHANGED <<pc, src, hist, card_counts, index, add_index>>

NextInput == FromLines \/ FromStr \/ TrimTrailingNewlines \/ AsLines \/ AsStr

SpecInput == InitInput /\ [][NextInput]_vars

(***************************************************************************)
(* Harness of the scanner on one line: Number::parse_row, Symbol::parse_row*)
(***************************************************************************)
GridChars == {"0", "7", ".", "*", "#", NL}

\* lines whose digit runs reach the top of u32: 2^32 - 1, 2^32, and a long run
LineFixtures ==
    { <<"4", "2", "9", "4", "9", "6", "7", "2", "9", "5">>,
      <<"4", "2", "9", "4", "9", "6", "7", "2", "9", "6">>,
      <<".", "0", "0", "0", "0", "4", "2", "9", "4", "9", "6", "7", "2", "9", "6", "#">>,
      <<"9", "9", "9", "9", "9", "9", "9", "9", "9", "9", "9">> }

Lines == SeqUpTo(GridChars, MaxLine) \cup LineFixtures

InitRow ==
    /\ pc = "call"
    /\ src \in [kind : {"row"}, row : 0..MaxRow, line : Lines]
    /\ hist = <<>>
    /\ ret = None
    /\ card_counts = <<>>
    /\ index = 0
    /\ add_index = 0

NumberParseRow ==
    /\ pc = "call" /\ src.kind = "row"
    /\ ret' = [op |-> "Number::parse_row", val |-> Number_parse_row(src.row, src.line)]
    /\ UNCHANGED <<pc, src, hist, card_counts, index, add_index>>

SymbolParseRow ==
    /\ pc = "call" /\ src.kind = "row"
    /\ ret' = [op |-> "Symbol::parse_row", val |-> Symbol_parse_row(src.row, src.line)]
    /\ UNCHANGED <<pc, src, hist, card_counts, index, add_index>>

NextRow == NumberParseRow \/ SymbolParseRow

SpecRow == InitRow /\ [][NextRow]_vars

(***************************************************************************)
(* Harness of Number::is_adjacent on one Number and one Symbol             *)
(***************************************************************************)
Coords == 0..MaxCoord \cup {UsizeMax - 1, UsizeMax}

Numbers == [number : {Big(1)}, row : Coords, start : Coords, end : Coords]

Symbols == [symbol : {"*"}, row : Coords, col : Coords]

InitAdjacent ==
    /\ pc = "call"
    /\ src \in [kind : {"adjacent"}, number : Numbers, symbol : Symbols]
    /\ hist = <<>>
    /\ ret = None
    /\ card_counts = <<>>
    /\ index = 0
    /\ add_index = 0

IsAdjacent ==
    /\ pc = "call" /\ src.kind = "adjacent"
    /\ ret' = [op |-> "is_adjacent", val |-> is_adjacent(src.number, src.symbol)]
    /\ UNCHANGED <<pc, src, hist, card_counts, index, add_index>>

NextAdjacent == IsAdjacent

SpecAdjacent == InitAdjacent /\ [][NextAdjacent]_vars

(***************************************************************************)
(* Harness of the scanner on a grid: the Input is loaded (from_str stands  *)
(* for Input::load, which stores the file's text as it is) and the          *)
(* functions of day 3 are called on it.  The profile the program was built *)
(* with decides whether a u32 overflow panics or wraps.                    *)
(***************************************************************************)
\* the 10-line schematic of the tests
Schematic ==
    << <<"4", "6", "7", ".", ".", "1", "1", "4", ".", ".">>,
       <<".", ".", ".", "*", ".", ".", ".", ".", ".", ".">>,
       <<".", ".", "3", "5", ".", ".", "6", "3", "3", ".">>,
       <<".", ".", ".", ".", ".", ".", "#", ".", ".", ".">>,
       <<"6", "1", "7", "*", ".", ".", ".", ".", ".", ".">>,
       <<".", ".", ".", ".", ".", "+", ".", "5", "8", ".">>,
       <<".", ".", "5", "9", "2", ".", ".", ".", ".", ".">>,
       <<".", ".", ".", ".", ".", ".", "7", "5", "5", ".">>,
       <<".", ".", ".", "$", ".", "*", ".", ".", ".", ".">>,
       <<".", "6", "6", "4", ".", "5", "9", "8", ".", ".">> >>

\* the 11-line schematic of test_get_part_numbers
Schematic11 == Schematic \o << <<".", ".", ".", ".", ".", ".", "+", "3", "2", "1">> >>

GridFixtures ==
    { from_lines(Schematic), from_lines(Schematic11),
      <<"4", "2", "9", "4", "9", "6", "7", "2", "9", "6", "*">>,
      <<"6", "5", "5", "3", "6", "*", "6", "5", "5", "3", "6">>,
      <<"4", "2", "9", "4", "9", "6", "7", "2", "9", "5", "*", "1">>,
      <<"7", "*", "7", "\n", "7", ".", ".", "\n", "\n">>,
      <<"*", "7", "*", "7", "\n", ".", "7", ".">> }

Grids == SeqUpTo(GridChars, MaxGrid) \cup GridFixtures

InitGrid ==
    /\ pc = "new"
    /\ src \in [kind : {"grid"}, val : Grids]
    /\ hist = <<>>
    /\ ret = None
    /\ card_counts = <<>>
    /\ index = 0
    /\ add_index = 0

Load ==
    /\ pc = "new" /\ src.kind = "grid"
    /\ hist' = <<from_str(src.val)>>
    /\ pc' = "call"
    /\ UNCHANGED <<src, ret, card_counts, index, add_index>>

GetNumbersFromInput ==
    /\ pc = "call" /\ src.kind = "grid"
    /\ ret' = [op |-> "get_numbers_from_input", val |-> get_numbers_from_input(Self)]
    /\ UNCHANGED <<pc, src, hist, card_counts, index, add_index>>

GetSymbolsFromInput ==
    /\ pc = "call" /\ src.kind = "grid"
    /\ ret' = [op |-> "get_symbols_from_input", val |-> get_symbols_from_input(Self)]
    /\ UNCHANGED <<pc, src, hist, card_counts, index, add_index>>

GetPartNumbers ==
    /\ pc = "call" /\ src.kind = "grid"
    /\ ret' = [op |-> "get_part_numbers", val |-> get_part_numbers(Self)]
    /\ UNCHANGED <<pc, src, hist, card_counts, index, add_index>>

GetGearRatios ==
    /\ pc = "call" /\ src.kind = "grid"
    /\ \E overflow_checks \in BOOLEAN :
         ret' = [op |-> "get_gear_ratios", val |-> get_gear_ratios(Self, overflow_checks)]
    /\ UNCHANGED <<pc, src, hist, card_counts, index, add_index>>

Part1 ==
    /\ pc = "call" /\ src.kind = "grid"
    /\ \E overflow_checks \in BOOLEAN :
         ret' = [op |-> "part1", val |-> part1(Self, overflow_checks)]
    /\ UNCHANGED <<pc, src, hist, card_counts, index, add_index>>

Part2 ==
    /\ pc = "call" /\ src.kind = "grid"
    /\ \E overflow_checks \in BOOLEAN :
         ret' = [op |-> "part2", val |-> part2(Self, overflow_checks)]
    /\ UNCHANGED <<pc, src, hist, card_counts, index, add_index>>

NextGrid ==
    \/ Load
    \/ GetNumbersFromInput
    \/ GetSymbolsFromInput
    \/ GetPartNumbers
    \/ GetGearRatios
    \/ Part1
    \/ Part2

SpecGrid == InitGrid /\ [][NextGrid]_vars

(***************************************************************************)
(* Properties of Input                                                     *)
(***************************************************************************)
\* the strings of a list joined with one "\n" between consecutive elements
RECURSIVE Join(_)
Join(lines) ==
    IF lines = <<>> THEN <<>>
    ELSE IF Len(lines) = 1 THEN lines[1]
    ELSE Join(Front(lines)) \o <<NL>> \o lines[Len(lines)]

NoNewline(lines) == \A i \in 1..Len(lines) : \A j \in 1..Len(lines[i]) : lines[i][j] # NL

\* C2: for a non-empty list L of strings without "\n",
\* from_lines(L).as_lines() yields exactly L.
RoundTripFromLines ==
    (/\ src.kind = "lines" /\ src.val # <<>> /\ NoNewline(src.val)
     /\ Len(hist) = 1 /\ ret.op = "as_lines")
    => ret.val = src.val

\* C3: from_lines(L) stores the strings of L joined with single "\n", nothing
\* appended after the last element and no character of an element removed.
FromLinesStoresJoin ==
    (src.kind = "lines" /\ Len(hist) >= 1) => hist[1] = Join(src.val)

\* C9: trim_trailing_newlines returns the text with all its trailing "\n"
\* removed and nothing else changed: the result does not end in "\n", is a
\* prefix of the text, and what was cut consists of "\n" only.
TrimRemovesAllTrailingNewlines ==
    \A i \in 2..Len(hist) :
        LET old == hist[i - 1]
            new == hist[i]
        IN  /\ new = <<>> \/ new[Len(new)] # NL
            /\ Len(new) <= Len(old)
            /\ SubSeq(old, 1, Len(new)) = new
            /\ \A j \in (Len(new) + 1)..Len(old) : old[j] = NL

\* two trailing newlines are cut, the newline inside and the trailing space stay
TrimWitness ==
    /\ Len(hist) = 2
    /\ hist[1] = <<NL, "a", " ", NL, NL>>
    /\ hist[2] = <<NL, "a", " ">>

\* C10: trimming a trimmed Input gives the same text again.
TrimIdempotent ==
    \A i \in 3..Len(hist) : hist[i] = hist[i - 1]

\* the first trim cut something, the second left the text alone
TrimTwiceWitness ==
    /\ Len(hist) = 3
    /\ src.kind = "str"
    /\ Len(hist[2]) + 2 <= Len(hist[1])
    /\ hist[3] = hist[2]

(***************************************************************************)
(* Properties of Number::is_adjacent                                       *)
(***************************************************************************)
\* C1: is_adjacent(n, s) is true iff |n.row - s.row| <= 1 and
\* max(n.start - 1, 0) <= s.col <= n.end + 1.
AdjacentIffWithinOne ==
    ret.op = "is_adjacent" =>
        LET n == src.number
            s == src.symbol
            lower == IF n.start - 1 > 0 THEN n.start - 1 ELSE 0
        IN  ret.val <=> (/\ n.row - s.row \in {-1, 0, 1}
                         /\ lower <= s.col
                         /\ s.col <= n.end + 1)

\* a Number starting at column 0 and a Symbol at column 0 one row below
AdjacentAtColumnZero ==
    /\ ret.op = "is_adjacent"
    /\ src.number.start = 0 /\ src.number.row = 0
    /\ src.symbol.col = 0 /\ src.symbol.row = 1
    /\ ret.val = TRUE

(***************************************************************************)
(* Properties of the scanner on one line                                   *)
(***************************************************************************)
AsciiDigits == {"0", "1", "2", "3", "4", "5", "6", "7", "8", "9"}

IsSymbolChar(c) == c \notin AsciiDigits /\ c # "."

\* C7: Symbol::parse_row(r, line) returns exactly one Symbol, with its
\* character, row r and its column, for each character of the line that is
\* neither an ASCII digit nor '.', and nothing else.
SymbolsAreTheOtherCharacters ==
    ret.op = "Symbol::parse_row" =>
        LET line == src.line
            cols == {c \in 0..(Len(line) - 1) : IsSymbolChar(line[c + 1])}
        IN  /\ Len(ret.val) = Cardinality(cols)
            /\ \A i \in 1..Len(ret.val) :
                 /\ ret.val[i].row = src.row
                 /\ ret.val[i].col \in cols
                 /\ ret.val[i].symbol = line[ret.val[i].col + 1]
                 /\ IsSymbolChar(ret.val[i].symbol)
            /\ \A c \in cols :
                 Cardinality({i \in 1..Len(ret.val) : ret.val[i].col = c}) = 1

\* a line with a digit, two '.' and two symbols yields the two symbols
SymbolsWitness ==
    /\ ret.op = "Symbol::parse_row"
    /\ src.row = 1
    /\ src.line = <<"7", ".", "*", ".", "#">>
    /\ ret.val = << [symbol |-> "*", row |-> 1, col |-> 2],
                    [symbol |-> "#", row |-> 1, col |-> 4] >>

\* the maximal runs of ASCII digits of a line, as pairs of 0-based columns
Runs(line) ==
    {r \in (0..(Len(line) - 1)) \X (0..(Len(line) - 1)) :
        /\ r[1] <= r[2]
        /\ \A c \in r[1]..r[2] : line[c + 1] \in AsciiDigits
        /\ r[1] = 0 \/ line[r[1]] \notin AsciiDigits
        /\ r[2] = Len(line) - 1 \/ line[r[2] + 2] \notin AsciiDigits}

\* the base-10 value of a string of digits, as a natural number of any size
RECURSIVE DecimalValue(_)
DecimalValue(digits) ==
    IF digits = <<>> THEN <<>>
    ELSE BigAdd(BigMul(DecimalValue(Front(digits)), Big(10)),
                Big(CHOOSE d \in 0..9 : DigitChars[d + 1] = digits[Len(digits)]))

RECURSIVE LeftToRight(_)
LeftToRight(runs) ==
    IF runs = {} THEN <<>>
    ELSE LET first == CHOOSE r \in runs : \A q \in runs : r[1] <= q[1]
         IN  <<first>> \o LeftToRight(runs \ {first})

\* one token per maximal run of the line, left to right
TokensOfLine(row, line) ==
    LET runs == LeftToRight(Runs(line))
    IN  [i \in 1..Len(runs) |->
            [number |-> DecimalValue(SubSeq(line, runs[i][1] + 1, runs[i][2] + 1)),
             row |-> row, start |-> runs[i][1], end |-> runs[i][2]]]

\* C6: Number::parse_row(r, line) returns exactly one Number per maximal run of
\* ASCII digits of the line, left to right, with row r, the run's first and last
\* columns, and the base-10 value of its digits (none for a line without digits).
NumbersAreTheMaximalRuns ==
    ret.op = "Number::parse_row" =>
        /\ ret.val.ok
        /\ ret.val.val = TokensOfLine(src.row, src.line)

\* what holds of Number::parse_row on every line: it returns the tokens of the
\* line when each of them fits a u32 and panics when one does not
NumbersAreTheMaximalRunsThatFit ==
    ret.op = "Number::parse_row" =>
        LET tokens == TokensOfLine(src.row, src.line)
        IN  IF \A i \in 1..Len(tokens) : FitsU32(tokens[i].number)
            THEN ret.val = Ok(tokens)
            ELSE ret.val = Panic

\* C8: the scanner never fails: on every line Number::parse_row returns its
\* tokens, the expect on parsing a run into a u32 is never reached.
ParseRowNeverPanics ==
    ret.op = "Number::parse_row" => ret.val.ok

(***************************************************************************)
(* Properties of the scanner on a grid                                     *)
(***************************************************************************)
RECURSIVE TokensOfRows(_, _)
TokensOfRows(lines, k) ==
    IF k = 0 THEN <<>>
    ELSE TokensOfRows(lines, k - 1) \o TokensOfLine(k - 1, lines[k])

\* the tokens of a grid in row-major order
TokensOf(text) == LET lines == split(text, NL) IN TokensOfRows(lines, Len(lines))

\* the symbol cells of one row, left to right
SymbolCellsOfLine(row, line) ==
    LET IsSymbolAt(c) == IsSymbolChar(line[c + 1])
        cols == SelectSeq([i \in 1..Len(line) |-> i - 1], IsSymbolAt)
    IN  [i \in 1..Len(cols) |-> [symbol |-> line[cols[i] + 1], row |-> row, col |-> cols[i]]]

RECURSIVE SymbolCellsOfRows(_, _)
SymbolCellsOfRows(lines, k) ==
    IF k = 0 THEN <<>>
    ELSE SymbolCellsOfRows(lines, k - 1) \o SymbolCellsOfLine(k - 1, lines[k])

\* the symbols of a grid in row-major order
SymbolCellsOf(text) ==
    LET lines == split(text, NL) IN SymbolCellsOfRows(lines, Len(lines))

\* adjacency as C1 states it
Touches(n, s) ==
    /\ n.row - s.row \in {-1, 0, 1}
    /\ (IF n.start - 1 > 0 THEN n.start - 1 ELSE 0) <= s.col
    /\ s.col <= n.end + 1

\* the values of the tokens adjacent to at least one symbol, in row-major order
PartNumbersOf(text) ==
    LET symbols == SymbolCellsOf(text)
        IsPart(n) == \E i \in 1..Len(symbols) : Touches(n, symbols[i])
        parts == SelectSeq(TokensOf(text), IsPart)
    IN  [i \in 1..Len(parts) |-> parts[i].number]

\* the pairs of tokens of the '*' symbols that touch exactly two tokens
RECURSIVE GearsOfStars(_, _, _)
GearsOfStars(tokens, stars, k) ==
    IF k = 0 THEN <<>>
    ELSE LET TouchesStar(n) == Touches(n, stars[k])
             found == SelectSeq(tokens, TouchesStar)
         IN  GearsOfStars(tokens, stars, k - 1)
                \o (IF Len(found) = 2 THEN <<found>> ELSE <<>>)

GearsOf(text) ==
    LET IsStarCell(s) == s.symbol = "*"
        stars == SelectSeq(SymbolCellsOf(text), IsStarCell)
    IN  GearsOfStars(TokensOf(text), stars, Len(stars))

\* the product of each gear's two values
GearRatiosOf(text) ==
    LET gears == GearsOf(text)
    IN  [i \in 1..Len(gears) |-> BigMul(gears[i][1].number, gears[i][2].number)]

\* C4: get_part_numbers returns, in row-major order, the value of exactly the
\* Number tokens adjacent to at least one Symbol, one entry per such token,
\* and part1 is the sum of these entries (4361 on the 10-line schematic).
PartNumbersAreTheTokensBySymbols ==
    /\ ret.op = "get_part_numbers" => ret.val = Ok(PartNumbersOf(src.val))
    /\ ret.op = "part1" => ret.val = Ok(BigSum(PartNumbersOf(src.val)))
    /\ (ret.op = "part1" /\ src.val = from_lines(Schematic)) => ret.val = Ok(Big(4361))

\* C5: get_gear_ratios returns one entry per '*' with exactly two adjacent
\* Number tokens, the product of their two values, in scan order of the '*';
\* any other '*' and every other symbol contribute nothing.
GearRatiosAreTheProductsOfPairs ==
    ret.op = "get_gear_ratios" => ret.val = Ok(GearRatiosOf(src.val))

AllFit(values) == \A i \in 1..Len(values) : FitsU32(values[i])

TokensFit(text) ==
    LET tokens == TokensOf(text) IN \A i \in 1..Len(tokens) : FitsU32(tokens[i].number)

\* what holds of get_part_numbers and part1 on every grid: the part numbers
\* when every token fits a u32 and a panic when one does not; their sum when
\* it fits a u32, and a panic or the sum modulo 2^32 when it does not
PartNumbersUnlessOverflow ==
    /\ ret.op = "get_part_numbers" =>
          ret.val = IF TokensFit(src.val) THEN Ok(PartNumbersOf(src.val)) ELSE Panic
    /\ ret.op = "part1" =>
          LET sum == BigSum(PartNumbersOf(src.val))
          IN  IF ~TokensFit(src.val) THEN ret.val = Panic
              ELSE IF FitsU32(sum) THEN ret.val = Ok(sum)
              ELSE ret.val \in {Panic, Ok(WrapU32(sum))}

\* what holds of get_gear_ratios on every grid: the products when every token
\* and every product fits a u32; a panic when a token does not fit; a panic or
\* the products modulo 2^32 when a product does not fit
GearRatiosUnlessOverflow ==
    ret.op = "get_gear_ratios" =>
        LET ratios == GearRatiosOf(src.val)
        IN  IF ~TokensFit(src.val) THEN ret.val = Panic
            ELSE IF AllFit(ratios) THEN ret.val = Ok(ratios)
            ELSE ret.val \in {Panic, Ok([i \in 1..Len(ratios) |-> WrapU32(ratios[i])])}

(***************************************************************************)
(* Properties of Input::as_lines                                           *)
(***************************************************************************)
\* C11: as_lines yields the pieces of the text between the "\n", in order and
\* with the empty pieces kept: there is one line more than there are "\n",
\* no line holds a "\n", joining the lines with "\n" gives the text back, and
\* the empty text yields exactly one empty line.
AsLinesAreThePieces ==
    ret.op = "as_lines" =>
        /\ Len(ret.val) = Cardinality({i \in 1..Len(Self) : Self[i] = NL}) + 1
        /\ NoNewline(ret.val)
        /\ Join(ret.val) = Self
        /\ Self = <<>> => ret.val = << <<>> >>

\* a text that begins with an empty line and ends with two
AsLinesWitness ==
    /\ ret.op = "as_lines"
    /\ Self = <<NL, "a", NL, NL>>
    /\ ret.val = << <<>>, <<"a">>, <<>>, <<>> >>

(***************************************************************************)
(* day01/src/main.rs : get_calibration_number_spelled_out                  *)
(***************************************************************************)
MaxCal == 5         \* longest line handed to get_calibration_number_spelled_out,
                    \* apart from the cases of the tests

\* NUMBERS : the words and the digits with their values
NUMBERS ==
    << <<<<"z", "e", "r", "o">>, 0>>,
       <<<<"o", "n", "e">>, 1>>,
       <<<<"t", "w", "o">>, 2>>,
       <<<<"t", "h", "r", "e", "e">>, 3>>,
       <<<<"f", "o", "u", "r">>, 4>>,
       <<<<"f", "i", "v", "e">>, 5>>,
       <<<<"s", "i", "x">>, 6>>,
       <<<<"s", "e", "v", "e", "n">>, 7>>,
       <<<<"e", "i", "g", "h", "t">>, 8>>,
       <<<<"n", "i", "n", "e">>, 9>>,
       <<<<"0">>, 0>>,
       <<<<"1">>, 1>>,
       <<<<"2">>, 2>>,
       <<<<"3">>, 3>>,
       <<<<"4">>, 4>>,
       <<<<"5">>, 5>>,
       <<<<"6">>, 6>>,
       <<<<"7">>, 7>>,
       <<<<"8">>, 8>>,
       <<<<"9">>, 9>> >>

\* whether word occurs in input at byte position i (from 0)
matches_at(input, word, i) ==
    /\ i + Len(word) <= Len(input)
    /\ SubSeq(input, i + 1, i + Len(word)) = word

positions(input, word) == {i \in 0..Len(input) : matches_at(input, word, i)}

least(S) == CHOOSE i \in S : \A j \in S : i <= j

greatest(S) == CHOOSE i \in S : \A j \in S : j <= i

\* an Option is a sequence of no or one element
some_least(S) == IF S = {} THEN <<>> ELSE <<least(S)>>

some_greatest(S) == IF S = {} THEN <<>> ELSE <<greatest(S)>>

\* str::find : Some(position of the first occurrence) or None
str_find(input, word) == some_least(positions(input, word))

\* a slip of rfind: the first occurrence is taken again
rfind_as_find(input, word) == str_find(input, word)

\* str::rfind : Some(position of the last occurrence) or None
str_rfind(input, word) == some_greatest(positions(input, word))

\* Option::map(|position| (position, *value))
with_value(option, value) == [i \in 1..Len(option) |-> <<option[i], value>>]

\* the closure of flat_map followed by flatten: the first and the last
\* occurrence of one entry of NUMBERS, those that are Some
occurrences_of(input, entry) ==
    with_value(str_find(input, entry[1]), entry[2])
        \o with_value(str_rfind(input, entry[1]), entry[2])

RECURSIVE flat_occurrences(_, _)
flat_occurrences(input, k) ==
    IF k = 0 THEN <<>>
    ELSE flat_occurrences(input, k - 1) \o occurrences_of(input, NUMBERS[k])

\* the order of (usize, u8) tuples
tuple_le(a, b) == a[1] < b[1] \/ (a[1] = b[1] /\ a[2] <= b[2])

\* the place of x in the sorted sequence xs: after the elements not above it
RECURSIVE insert_sorted(_, _)
insert_sorted(xs, x) ==
    IF xs = <<>> THEN <<x>>
    ELSE IF tuple_le(xs[Len(xs)], x) THEN Append(xs, x)
    ELSE Append(insert_sorted(Front(xs), x), xs[Len(xs)])

\* Itertools::sorted
RECURSIVE sorted(_)
sorted(xs) ==
    IF xs = <<>> THEN <<>> ELSE insert_sorted(sorted(Front(xs)), xs[Len(xs)])

CalErr == [ok |-> FALSE, val |-> 0]

\* the match on (digits.first(), digits.last()); 10 * first.1 + last.1 is at
\* most 99 and fits the u8
first_and_last(digits) ==
    IF digits = <<>> THEN CalErr
    ELSE Ok(10 * digits[1][2] + digits[Len(digits)][2])

\* get_calibration_number_spelled_out
get_calibration_number_spelled_out(input) ==
    first_and_last(sorted(flat_occurrences(input, Len(NUMBERS))))

(***************************************************************************)
(* Harness of get_calibration_number_spelled_out on one line               *)
(***************************************************************************)
CalChars == {"t", "w", "o", "n", "e", "3"}

\* the cases of the tests, each with the number the test expects
CalCases ==
    << <<<<"1", "2">>, 12>>,
       <<<<"1", "1">>, 11>>,
       <<<<"1">>, 11>>,
       <<<<"1", "a", "b", "c", "2">>, 12>>,
       <<<<"p", "q", "r", "3", "s", "t", "u", "8", "v", "w", "x">>, 38>>,
       <<<<"a", "1", "b", "2", "c", "3", "d", "4", "e", "5", "f">>, 15>>,
       <<<<"t", "r", "e", "b", "7", "u", "c", "h", "e", "t">>, 77>>,
       <<<<"t", "w", "o", "1", "n", "i", "n", "e">>, 29>>,
       <<<<"e", "i", "g", "h", "t", "w", "o", "t", "h", "r", "e", "e">>, 83>>,
       <<<<"a", "b", "c", "o", "n", "e", "2", "t", "h", "r", "e", "e", "x", "y", "z">>, 13>>,
       <<<<"x", "t", "w", "o", "n", "e", "3", "f", "o", "u", "r">>, 24>>,
       <<<<"4", "n", "i", "n", "e", "e", "i", "g", "h", "t", "s", "e", "v", "e", "n", "2">>, 42>>,
       <<<<"z", "o", "n", "e", "i", "g", "h", "t", "2", "3", "4">>, 14>>,
       <<<<"7", "p", "q", "r", "s", "t", "s", "i", "x", "t", "e", "e", "n">>, 76>>,
       <<<<"7", "p", "q", "r", "s", "t", "e", "i", "g", "h", "t", "h", "r", "e", "e">>, 73>>,
       <<<<"7", "2", "3", "7">>, 77>> >>

CalLines ==
    SeqUpTo(CalChars, MaxCal) \cup {CalCases[i][1] : i \in 1..Len(CalCases)}

InitCalibration ==
    /\ pc = "call"
    /\ src \in [kind : {"calibration"}, line : CalLines]
    /\ hist = <<>>
    /\ ret = None
    /\ card_counts = <<>>
    /\ index = 0
    /\ add_index = 0

GetCalibrationNumberSpelledOut ==
    /\ pc = "call" /\ src.kind = "calibration"
    /\ ret' = [op |-> "get_calibration_number_spelled_out",
               val |-> get_calibration_number_spelled_out(src.line)]
    /\ UNCHANGED <<pc, src, hist, card_counts, index, add_index>>

NextCalibration == GetCalibrationNumberSpelledOut

SpecCalibration == InitCalibration /\ [][NextCalibration]_vars

\* the tokens: the digit characters and the words zero .. nine
TokenValue(token) ==
    CHOOSE v \in 0..9 : token = <<DigitChars[v + 1]>> \/ token = NUMBERS[v + 1][1]

Tokens == {<<DigitChars[v + 1]>> : v \in 0..9} \cup {NUMBERS[v + 1][1] : v \in 0..9}

\* the occurrences of tokens in a line, overlapping ones included, as pairs
\* of the position where the occurrence starts and the token
TokenOccurrences(line) ==
    {o \in (0..Len(line)) \X Tokens :
        /\ o[1] + Len(o[2]) <= Len(line)
        /\ \A j \in 1..Len(o[2]) : line[o[1] + j] = o[2][j]}

Earliest(occ) == CHOOSE o \in occ : \A q \in occ : o[1] <= q[1]

Latest(occ) == CHOOSE o \in occ : \A q \in occ : q[1] <= o[1]

\* C12: get_calibration_number_spelled_out returns Ok(10 * a + b), a the value
\* of the token occurrence that starts earliest in the line and b the value of
\* the one that starts latest, and Err if and only if the line holds no token
\* ('eightwothree' gives 83, 'xtwone3four' gives 24).
CalibrationIsFirstAndLastToken ==
    ret.op = "get_calibration_number_spelled_out" =>
        /\ ret.val.ok <=> TokenOccurrences(src.line) # {}
        /\ ret.val.ok =>
             ret.val.val = 10 * TokenValue(Earliest(TokenOccurrences(src.line))[2])
                              + TokenValue(Latest(TokenOccurrences(src.line))[2])
        /\ \A i \in 1..Len(CalCases) :
             src.line = CalCases[i][1] => ret.val = Ok(CalCases[i][2])

\* overlapping words: 'twone' holds two at 0 and one at 2
CalibrationWitness ==
    /\ ret.op = "get_calibration_number_spelled_out"
    /\ src.line = <<"t", "w", "o", "n", "e">>
    /\ ret.val = Ok(21)

(***************************************************************************)
(* day04/src/main.rs : part2, the card-copy loop                           *)
(*                                                                         *)
(* The cards are taken as Card::from_str built them: two sets of numbers.  *)
(* The counts are usize values of a 64-bit target, kept as little-endian   *)
(* byte sequences like the u32 values above.                               *)
(***************************************************************************)
CountBits == 64

CountBytes == CountBits \div 8

FitsUsize(x) == Len(x) <= CountBytes

WrapUsize(x) == BigNorm(SubSeq(x, 1, IF Len(x) < CountBytes THEN Len(x) ELSE CountBytes))

\* the exact result p of a + b on usize: an overflow panics with overflow
\* checks on and wraps modulo 2^64 with them off
usize_overflowing(p, overflow_checks) ==
    IF FitsUsize(p) THEN Ok(p) ELSE IF overflow_checks THEN Panic ELSE Ok(WrapUsize(p))

usize_add(a, b, overflow_checks) == usize_overflowing(BigAdd(a, b), overflow_checks)

usize_sum_step(acc, x, overflow_checks) ==
    IF acc.ok THEN usize_add(acc.val, x, overflow_checks) ELSE Panic

\* the left fold of + over xs[lo] .. xs[hi] from acc, halved so that long
\* vectors do not nest deeply
RECURSIVE usize_fold(_, _, _, _, _)
usize_fold(acc, xs, lo, hi, overflow_checks) ==
    IF ~acc.ok THEN Panic
    ELSE IF hi < lo THEN acc
    ELSE IF hi = lo THEN usize_sum_step(acc, xs[lo], overflow_checks)
    ELSE usize_fold(usize_fold(acc, xs, lo, (lo + hi) \div 2, overflow_checks),
                    xs, (lo + hi) \div 2 + 1, hi, overflow_checks)

\* Iterator::sum over usize: a left fold of + from 0
usize_sum(xs, overflow_checks) == usize_fold(Ok(<<>>), xs, 1, Len(xs), overflow_checks)

\* Card::matches
matches(card) == Cardinality(card.winners \cap card.numbers)

min(a, b) == IF a <= b THEN a ELSE b

\* let last = (index + 1 + matches).min(cards.len()), for the card at index i
last(cards, i) == min(i + 1 + matches(cards[i + 1]), Len(cards))

\* vec![1; cards.len()]
vec_of_ones(n) == [i \in 1..n |-> Big(1)]

store(counts, i, r) == IF r.ok THEN Ok([counts EXCEPT ![i + 1] = r.val]) ELSE Panic

\* card_counts[i] += card_counts[j]: an index past the end panics
add_assign(counts, i, j, overflow_checks) ==
    IF i >= Len(counts) \/ j >= Len(counts) THEN Panic
    ELSE store(counts, i, usize_add(counts[i + 1], counts[j + 1], overflow_checks))

(***************************************************************************)
(* Harness of part2 of day 4: the run is given the cards and walks the     *)
(* two loops one iteration at a time                                       *)
(***************************************************************************)
MaxCards == 4

MaxMatches == 3

\* a card with k of its numbers among the winners and one that is not
CardWith(k) == [winners |-> 1..MaxMatches, numbers |-> (1..k) \cup {MaxMatches + 1}]

CardKinds == {CardWith(k) : k \in 0..MaxMatches}

\* the cards of test_part2
TestCards ==
    << [winners |-> {41, 48, 83, 86, 17}, numbers |-> {83, 86, 6, 31, 17, 9, 48, 53}],
       [winners |-> {13, 32, 20, 16, 61}, numbers |-> {61, 30, 68, 82, 17, 32, 24, 19}],
       [winners |-> {1, 21, 53, 59, 44},  numbers |-> {69, 82, 63, 72, 16, 21, 14, 1}],
       [winners |-> {41, 92, 73, 84, 69}, numbers |-> {59, 84, 76, 51, 58, 5, 54, 83}],
       [winners |-> {87, 83, 26, 28, 32}, numbers |-> {88, 30, 70, 12, 93, 22, 82, 36}],
       [winners |-> {31, 18, 13, 56, 72}, numbers |-> {74, 77, 10, 23, 35, 67, 36, 11}] >>

\* 74 cards with three matches each: a card has one instance more than the
\* three cards before it together, and the last one more than 2^64 instances
ManyCards == [i \in 1..74 |-> [winners |-> {1, 2, 3}, numbers |-> {3, 2, 1, 4}]]

CardLists == SeqUpTo(CardKinds, MaxCards) \cup {TestCards, ManyCards}

InitCards ==
    /\ pc = "cards"
    /\ src \in {[kind |-> "cards", val |-> cards] : cards \in CardLists}
    /\ hist = <<>>
    /\ ret = None
    /\ card_counts = <<>>
    /\ index = 0
    /\ add_index = 0

\* let mut card_counts = vec![1; cards.len()], and the first enumerate()
CardCounts ==
    /\ pc = "cards"
    /\ card_counts' = vec_of_ones(Len(src.val))
    /\ index' = 0
    /\ pc' = "for"
    /\ UNCHANGED <<src, hist, ret, add_index>>

\* the outer loop takes the card at index: next = index + 1
ForCard ==
    /\ pc = "for"
    /\ index < Len(src.val)
    /\ add_index' = index + 1
    /\ pc' = "add"
    /\ UNCHANGED <<src, hist, ret, card_counts, index>>

\* one iteration of for add_index in next..last
AddCopies ==
    /\ pc = "add"
    /\ add_index < last(src.val, index)
    /\ \E overflow_checks \in BOOLEAN :
          IF add_assign(card_counts, add_index, index, overflow_checks).ok
          THEN /\ card_counts' = add_assign(card_counts, add_index, index, overflow_checks).val
               /\ add_index' = add_index + 1
               /\ pc' = "add"
          ELSE /\ pc' = "panicked"
               /\ UNCHANGED <<card_counts, add_index>>
    /\ UNCHANGED <<src, hist, ret, index>>

\* the inner range is exhausted: on to the next card
EndAdd ==
    /\ pc = "add"
    /\ add_index >= last(src.val, index)
    /\ index' = index + 1
    /\ pc' = "for"
    /\ UNCHANGED <<src, hist, ret, card_counts, add_index>>

\* the outer loop is exhausted
EndFor ==
    /\ pc = "for"
    /\ index >= Len(src.val)
    /\ pc' = "sum"
    /\ UNCHANGED <<src, hist, ret, card_counts, index, add_index>>

\* let sum: usize = card_counts.iter().sum(); Ok(sum as u64)
SumCounts ==
    /\ pc = "sum"
    /\ \E overflow_checks \in BOOLEAN :
          ret' = [op |-> "day04::part2", val |-> usize_sum(card_counts, overflow_checks)]
    /\ pc' = "done"
    /\ UNCHANGED <<src, hist, card_counts, index, add_index>>

NextCards == CardCounts \/ ForCard \/ AddCopies \/ EndAdd \/ EndFor \/ SumCounts

SpecCards == InitCards /\ [][NextCards]_vars

(***************************************************************************)
(* C13: the card-copy loop of part2 of day 4                               *)
(***************************************************************************)
\* card i hands copies to card j (both counted from 0): j is one of the
\* matches(card i) cards after i, and there is such a card
Reaches(cards, i, j) == i < j /\ j <= i + matches(cards[i + 1]) /\ j <= Len(cards) - 1

\* what card j is handed by the cards lo .. hi - 1, given the number of
\* instances each of those ends up with
RECURSIVE HandedBy(_, _, _, _, _)
HandedBy(cards, finals, j, lo, hi) ==
    IF hi <= lo THEN <<>>
    ELSE IF hi = lo + 1 THEN (IF Reaches(cards, lo, j) THEN finals[lo + 1] ELSE <<>>)
    ELSE BigAdd(HandedBy(cards, finals, j, lo, (lo + hi) \div 2),
                HandedBy(cards, finals, j, (lo + hi) \div 2, hi))

\* what card j has been handed by the cards before card upto
Handed(cards, finals, j, upto) == HandedBy(cards, finals, j, 0, upto)

\* xs[lo] + ... + xs[hi]
RECURSIVE TotalOf(_, _, _)
TotalOf(xs, lo, hi) ==
    IF hi < lo THEN <<>>
    ELSE IF hi = lo THEN xs[lo]
    ELSE BigAdd(TotalOf(xs, lo, (lo + hi) \div 2), TotalOf(xs, (lo + hi) \div 2 + 1, hi))

Total(xs) == TotalOf(xs, 1, Len(xs))

\* the instances the cards end up with, as natural numbers and first card
\* first: one original, and for every earlier card that reaches the card as
\* many as that earlier card ends up with
RECURSIVE CountsFrom(_, _, _)
CountsFrom(cards, finals, k) ==
    IF Len(finals) >= Len(cards) \/ k = 0 THEN finals
    ELSE IF k = 1
    THEN Append(finals, BigAdd(Big(1), Handed(cards, finals, Len(finals), Len(finals))))
    ELSE CountsFrom(cards, CountsFrom(cards, finals, k \div 2), k - k \div 2)

FinalCounts(cards) == CountsFrom(cards, <<>>, Len(cards))

\* the instances of card j when the outer loop has finished the cards before
\* card i and the inner loop, if it runs, has passed the cards before card a
CountAt(cards, finals, j, i, a) ==
    BigAdd(BigAdd(Big(1), Handed(cards, finals, j, i)),
           IF pc = "add" /\ Reaches(cards, i, j) /\ j < a THEN finals[i + 1] ELSE <<>>)

CountsAsClaimed(cards, finals) ==
    /\ Len(card_counts) = Len(cards)
    /\ \A j \in 0..(Len(cards) - 1) :
          /\ card_counts[j + 1] = CountAt(cards, finals, j, index, add_index)
          /\ card_counts[j + 1] # <<>>
          /\ j <= index => card_counts[j + 1] = finals[j + 1]

CardLoopAsClaimed ==
    /\ pc # "panicked"
    /\ pc \in {"for", "add", "sum", "done"} =>
          CountsAsClaimed(src.val, FinalCounts(src.val))
    /\ pc = "add" /\ add_index < last(src.val, index) =>
          /\ add_index >= index + 1
          /\ add_index <= min(index + matches(src.val[index + 1]), Len(src.val) - 1)
          /\ add_index < Len(card_counts)
    /\ pc = "done" =>
          ret = [op |-> "day04::part2", val |-> Ok(Total(FinalCounts(src.val)))]
    /\ pc = "done" /\ src.val = TestCards => ret.val = Ok(Big(30))

\* C13: processing the cards in index order from one instance each, card i
\* with m_i matches adds its count to the cards i+1 .. min(i+m_i, n-1) and to
\* no other card, the write index never reaches n, a card's count is final
\* before the card is processed, every count stays >= 1, and the result is
\* the sum of the final counts (30 on the cards of test_part2)
CardCopiesLoop == src.kind = "cards" => CardLoopAsClaimed

\* the same, for the cards whose instances add up to a usize
CardCopiesLoopUnlessOverflow ==
    (src.kind = "cards" /\ FitsUsize(Total(FinalCounts(src.val))))
        => CardLoopAsClaimed

(***************************************************************************)
(* The arithmetic of day 3                                                 *)
(***************************************************************************)
\* C14: on every grid whose Number tokens each fit a u32, each gear ratio of
\* get_gear_ratios is the product of its two values as natural numbers, and
\* part1 and part2 return the sum of the part numbers and of the gear ratios
\* as natural numbers: nothing wraps around and nothing panics on overflow
ArithmeticIsExact ==
    (src.kind = "grid" /\ pc = "call" /\ TokensFit(src.val)) =>
        /\ ret.op = "get_gear_ratios" => ret.val = Ok(GearRatiosOf(src.val))
        /\ ret.op = "part1" => ret.val = Ok(BigSum(PartNumbersOf(src.val)))
        /\ ret.op = "part2" => ret.val = Ok(BigSum(GearRatiosOf(src.val)))

\* what holds of part2 on the grids whose tokens fit: the sum of the gear
\* ratios when every ratio and the sum fit a u32
Part2UnlessOverflow ==
    (ret.op = "part2" /\ TokensFit(src.val) /\ AllFit(GearRatiosOf(src.val))
       /\ FitsU32(BigSum(GearRatiosOf(src.val))))
        => ret.val = Ok(BigSum(GearRatiosOf(src.val)))

(***************************************************************************)
(* The tokens of part 1 and of part 2 of day 3                             *)
(***************************************************************************)
MaxTrail == 2

RECURSIVE Newlines(_)
Newlines(k) == IF k = 0 THEN <<>> ELSE <<NL>> \o Newlines(k - 1)

\* the Number tokens get_part_numbers keeps, where the scan returns
PartTokens(input) ==
    adjacent_numbers(get_symbols_from_input(trim_trailing_newlines(input)),
                     get_numbers_from_input(trim_trailing_newlines(input)).val)

\* the pairs of Number tokens get_gear_ratios multiplies, where the scan returns
GearTokens(input) ==
    gear_pairs(get_numbers_from_input(trim_trailing_newlines(input)).val,
               SelectSeq(get_symbols_from_input(trim_trailing_newlines(input)), IsStar),
               Len(SelectSeq(get_symbols_from_input(trim_trailing_newlines(input)), IsStar)))

IsPartToken(input, number) ==
    \E j \in 1..Len(PartTokens(input)) : PartTokens(input)[j] = number

\* C15: every Number token that is a factor of a gear ratio returned by
\* get_gear_ratios is one of the tokens get_part_numbers reports on the same
\* grid, and both functions return the same for an input and for that input
\* followed by any number of "\n"
GearTokensArePartTokens ==
    (src.kind = "grid" /\ pc = "call") =>
        /\ (ret.op = "get_gear_ratios" /\ ret.val.ok) =>
              /\ ret.val \in {ratios_of(GearTokens(Self), oc) : oc \in BOOLEAN}
              /\ get_part_numbers(Self) = Ok(values_of(PartTokens(Self)))
              /\ \A i \in 1..Len(GearTokens(Self)) :
                    /\ IsPartToken(Self, GearTokens(Self)[i][1])
                    /\ IsPartToken(Self, GearTokens(Self)[i][2])
        /\ ret.op = "get_part_numbers" =>
              \A k \in 1..MaxTrail : get_part_numbers(Self \o Newlines(k)) = ret.val
        /\ ret.op = "get_gear_ratios" =>
              \A k \in 1..MaxTrail :
                 /\ ret.val \in {get_gear_ratios(Self \o Newlines(k), oc) : oc \in BOOLEAN}
                 /\ \A oc \in BOOLEAN :
                       get_gear_ratios(Self \o Newlines(k), oc) = get_gear_ratios(Self, oc)

\* the grid "7*7#": one gear, and both its tokens are part
\* numbers although neither is adjacent to the '#'
GearTokensWitness ==
    /\ pc = "call"
    /\ Self = <<"7", "*", "7", "#">>
    /\ ret = [op |-> "get_gear_ratios", val |-> Ok(<< Big(49) >>)]
    /\ Len(GearTokens(Self)) = 1
    /\ Len(PartTokens(Self)) = 2

=============================================================================
